---- MODULE Spec2Model ----
(***************************************************************************)
(* The operator dispatch registry of ATen/core/dispatch/Dispatcher.cpp:    *)
(* operator entries with their definition/implementation counters, the     *)
(* name lookup table, the backend fallback table, the registration         *)
(* listeners and the outstanding RegistrationHandleRAII tokens.            *)
(*                                                                         *)
(* Every handler that holds mutex_ for its whole body is one atomic action.*)
(* SpecThreads runs the same handlers on threads, step by step, with the   *)
(* lock each of them takes or does not take, next to lock-free readers.    *)
(***************************************************************************)
EXTENDS Naturals, Integers, Sequences, FiniteSets, Bags, TLC

\* ---------------------------------------------------------------- bounds
NumKeys == 4             \* dispatch keys 0..NumKeys-1, 0 is Undefined
MaxKernel == 2           \* kernel functions 1..MaxKernel, 1 is the fallthrough kernel
MaxTokens == 2           \* definition and kernel tokens alive at once
MaxListeners == 1        \* listeners added
MaxLog == 2              \* events one listener records
MaxThreads == 2          \* threads calling into the dispatcher

\* ------------------------------------------------------------ value sets
\* operator names, and the structurally different signatures a name is defined with
Names == {"pkg::add", "pkg::mul"}
Sigs == {"(Int,Int)->Int", "(Int)->Int"}
Undefined == 0
DispatchKeys == 1..(NumKeys - 1)
nullopt == -1
KernelFunctions == 1..MaxKernel
FallthroughKernel == 1
NoKernel == 0
NoHandle == 0

\* what registerImpl is called with: a key or none, and a kernel that computes
ImplKeys == {nullopt, Undefined + 1}
ImplKernels == {FallthroughKernel + 1}

\* c10::AliasAnalysisKind; "nullopt" is a schema without an explicit kind
AliasAnalysisKinds == {"CONSERVATIVE", "FROM_SCHEMA"}
OptAliasKinds == AliasAnalysisKinds \cup {"nullopt"}

Schemas == [name : Names, sig : Sigs, alias_kind : OptAliasKinds]
NoSchema == [name |-> "", sig |-> "", alias_kind |-> "nullopt"]

VARIABLES operators_, operatorLookupTable_, backendFallbackKernels_,
          backendsWithoutFallthrough_, listeners_, tokens, last,
          mutex_, pc

registry == <<operators_, operatorLookupTable_, backendFallbackKernels_,
              backendsWithoutFallthrough_, listeners_>>
threadVars == <<mutex_, pc>>
vars == <<operators_, operatorLookupTable_, backendFallbackKernels_,
          backendsWithoutFallthrough_, listeners_, tokens, last, mutex_, pc>>

\* ------------------------------------------------- FunctionSchema, Kernel
isDefaultAliasAnalysisKind(schema) == schema.alias_kind = "nullopt"

aliasAnalysis(schema) ==
  IF schema.alias_kind = "nullopt" THEN "CONSERVATIVE" ELSE schema.alias_kind

SchemaEq(a, b) == a.name = b.name /\ a.sig = b.sig

isFallthrough(kernel) == kernel = FallthroughKernel

\* ---------------------------------------------------------- OperatorEntry
NewEntry(id, op_name) ==
  [id |-> id, name |-> op_name, schema |-> NoSchema, kernels |-> << >>,
   def_count |-> 0, def_and_impl_count |-> 0]

hasSchema(e) == e.schema # NoSchema

registerSchema(e, schema) == [e EXCEPT !.schema = schema]

deregisterSchema(e) == [e EXCEPT !.schema = NoSchema]

FreshKernelHandle(e) ==
  CHOOSE h \in 1..(Len(e.kernels) + 1) :
    /\ \A i \in 1..Len(e.kernels) : e.kernels[i].h # h
    /\ \A g \in 1..(h - 1) : \E i \in 1..Len(e.kernels) : e.kernels[i].h = g

registerKernel(e, dispatch_key, kernel) ==
  [e EXCEPT !.kernels =
     << [h |-> FreshKernelHandle(e), key |-> dispatch_key, kernel |-> kernel] >> \o @]

deregisterKernel_(e, dispatch_key, handle) ==
  [e EXCEPT !.kernels =
     SelectSeq(@, LAMBDA k : ~(k.key = dispatch_key /\ k.h = handle))]

prepareForDeregistration(e) == ~hasSchema(e) /\ e.kernels = << >>

\* ------------------------------------------------- the owning collection
Ids(ops) == {ops[i].id : i \in 1..Len(ops)}

Deref(ops, id) == ops[CHOOSE i \in 1..Len(ops) : ops[i].id = id]

Update(ops, id, e) ==
  [i \in 1..Len(ops) |-> IF ops[i].id = id THEN e ELSE ops[i]]

Erase(ops, id) == SelectSeq(ops, LAMBDA e : e.id # id)

FreshId(ops) ==
  CHOOSE n \in 1..(Len(ops) + 1) :
    /\ n \notin Ids(ops)
    /\ \A m \in 1..(n - 1) : m \in Ids(ops)

\* ------------------------------------------------------------------ lookup
findOperatorByName(lut, overload_name) == lut[overload_name]

findSchema(ops, lut, overload_name) ==
  LET it == findOperatorByName(lut, overload_name)
  IN IF it # NoHandle
       THEN IF hasSchema(Deref(ops, it)) THEN it ELSE NoHandle
       ELSE it

\* slip: an entry is emplaced without looking the name up first
findOrRegisterName_AlwaysEmplaces(ops, lut, op_name) ==
  LET handle == FreshId(ops)
  IN [ops |-> Append(ops, NewEntry(handle, op_name)),
      lut |-> [lut EXCEPT ![op_name] = handle],
      op |-> handle]

findOrRegisterName_(ops, lut, op_name) ==
  LET found == findOperatorByName(lut, op_name)
  IN IF found # NoHandle
       THEN [ops |-> ops, lut |-> lut, op |-> found]
       ELSE LET handle == FreshId(ops)
            IN [ops |-> Append(ops, NewEntry(handle, op_name)),
                lut |-> [lut EXCEPT ![op_name] = handle],
                op |-> handle]

\* -------------------------------------------------------------- listeners
\* what a listener records of a callback: which one, for which operator,
\* and what the handle it is given shows then (is the operator found by
\* findOperatorByName, has it a schema)
onOperatorRegistered(e, lut) ==
  [ev |-> "registered", name |-> e.name,
   found |-> findOperatorByName(lut, e.name) = e.id, hasSchema |-> hasSchema(e)]

onOperatorDeregistered(e, lut) ==
  [ev |-> "deregistered", name |-> e.name,
   found |-> findOperatorByName(lut, e.name) = e.id, hasSchema |-> hasSchema(e)]

callOnOperatorRegistered(ls, e, lut) ==
  [i \in 1..Len(ls) |-> Append(ls[i], onOperatorRegistered(e, lut))]

callOnOperatorDeregistered(ls, e, lut) ==
  [i \in 1..Len(ls) |-> Append(ls[i], onOperatorDeregistered(e, lut))]

LogRoom == \A i \in 1..Len(listeners_) : Len(listeners_[i]) < MaxLog

\* ------------------------------------------------------------------ tokens
DefToken(op, op_name) ==
  [kind |-> "def", op |-> op, name |-> op_name, key |-> nullopt, h |-> 0]
ImplToken(op, op_name, dispatch_key, handle) ==
  [kind |-> "impl", op |-> op, name |-> op_name, key |-> dispatch_key, h |-> handle]
FallbackToken(dispatchKey) ==
  [kind |-> "fallback", op |-> NoHandle, name |-> "", key |-> dispatchKey, h |-> 0]

\* the number of live tokens of one kind for one operator name
TokenCount(kind, op_name) ==
  LET S == {t \in BagToSet(tokens) : t.kind = kind /\ t.name = op_name}
  IN BagCardinality([t \in S |-> tokens[t]])

TokenRoom ==
  LET S == {t \in BagToSet(tokens) : t.kind # "fallback"}
  IN BagCardinality([t \in S |-> tokens[t]]) < MaxTokens

\* what a TORCH_CHECK(false, ...) raises: the fixed text of the message and
\* the values it puts into it
Error(text, operatorName, dispatchKeyStr, keys) ==
  [text |-> text, operatorName |-> operatorName, dispatchKeyStr |-> dispatchKeyStr,
   listAllDispatchKeys |-> keys]

NoError == Error("", "", "", {})

\* a call and its outcome: whether it returned, the handle it returned and
\* the error a lookup raised
Call(op, ok, name, schema, key, kernel) ==
  [op |-> op, ok |-> ok, name |-> name, schema |-> schema, key |-> key, kernel |-> kernel,
   handle |-> NoHandle, error |-> NoError]

\* ----------------------------------------------------------------- threads
Threads == 1..MaxThreads
Unlocked == 0

\* where a thread is: the call it is in, the step of the call it is at, and
\* what the call holds in its locals (a token, a handle, a result)
At(stage, call, tok, h, flag) ==
  [stage |-> stage, call |-> call, tok |-> tok, h |-> h, flag |-> flag]

NoCall == Call("init", TRUE, "", NoSchema, nullopt, NoKernel)

Idle == At("idle", NoCall, FallbackToken(Undefined), NoHandle, TRUE)

Init ==
  /\ mutex_ = Unlocked
  /\ pc = [t \in Threads |-> Idle]
  /\ operators_ = << >>
  /\ operatorLookupTable_ = [n \in Names |-> NoHandle]
  /\ backendFallbackKernels_ = [k \in DispatchKeys |-> NoKernel]
  /\ backendsWithoutFallthrough_ = DispatchKeys
  /\ listeners_ = << >>
  /\ tokens = EmptyBag
  /\ last = Call("init", TRUE, "", NoSchema, nullopt, NoKernel)

\* ------------------------------------------------------------ registerDef
\* slip: two explicit kinds are compared with the test inverted
checkSchemaCompatibility_KindsInverted(existing, schema) ==
  /\ SchemaEq(existing, schema)
  /\ IF isDefaultAliasAnalysisKind(schema)
       THEN TRUE
       ELSE IF isDefaultAliasAnalysisKind(existing)
              THEN aliasAnalysis(existing) = aliasAnalysis(schema)
              ELSE aliasAnalysis(existing) # aliasAnalysis(schema)

\* slip: the new schema's explicit kind is merged in without a check
checkSchemaCompatibility_MergesKind(existing, schema) ==
  /\ SchemaEq(existing, schema)
  /\ IF isDefaultAliasAnalysisKind(schema)
       THEN TRUE
       ELSE IF isDefaultAliasAnalysisKind(existing)
              THEN TRUE
              ELSE aliasAnalysis(existing) = aliasAnalysis(schema)

\* slip: the backward-compatibility branch tests the existing schema
checkSchemaCompatibility_TestsExisting(existing, schema) ==
  /\ SchemaEq(existing, schema)
  /\ IF isDefaultAliasAnalysisKind(existing)
       THEN TRUE
       ELSE aliasAnalysis(existing) = aliasAnalysis(schema)

\* TRUE when none of the TORCH_CHECKs of checkSchemaCompatibility fires
checkSchemaCompatibility(existing, schema) ==
  /\ SchemaEq(existing, schema)
  /\ IF isDefaultAliasAnalysisKind(schema)
       THEN TRUE
       ELSE IF isDefaultAliasAnalysisKind(existing)
              THEN aliasAnalysis(existing) = aliasAnalysis(schema)
              ELSE aliasAnalysis(existing) = aliasAnalysis(schema)

\* slip: def_and_impl_count is incremented before the error checking
incrementDefCounts_BeforeCheck(e, ok) ==
  IF ok THEN [e EXCEPT !.def_count = @ + 1, !.def_and_impl_count = @ + 1]
        ELSE [e EXCEPT !.def_and_impl_count = @ + 1]

\* slip: a definition is not counted in def_and_impl_count
incrementDefCounts_OnlyDef(e, ok) ==
  IF ok THEN [e EXCEPT !.def_count = @ + 1] ELSE e

\* the increments after the error checking
incrementDefCounts(e, ok) ==
  IF ok THEN [e EXCEPT !.def_count = @ + 1, !.def_and_impl_count = @ + 1]
        ELSE e

\* slip: the listeners are called for every accepted definition
registerDefResult_NotifiesAlways(ops, lut, ls, schema) ==
  LET op_name == schema.name
      r == findOrRegisterName_(ops, lut, op_name)
      e == Deref(r.ops, r.op)
      first == e.def_count = 0
      ok == first \/ checkSchemaCompatibility(e.schema, schema)
      e1 == IF first THEN registerSchema(e, schema) ELSE e
  IN [ops |-> Update(r.ops, r.op, incrementDefCounts(e1, ok)),
      lut |-> r.lut,
      ls |-> IF ok THEN callOnOperatorRegistered(ls, e1, r.lut) ELSE ls,
      op |-> r.op,
      ok |-> ok]

\* the registry after registerDef(schema), and whether the call returned
registerDefResult(ops, lut, ls, schema) ==
  LET op_name == schema.name
      r == findOrRegisterName_(ops, lut, op_name)
      e == Deref(r.ops, r.op)
      first == e.def_count = 0
      ok == first \/ checkSchemaCompatibility(e.schema, schema)
      e1 == IF first THEN registerSchema(e, schema) ELSE e
  IN [ops |-> Update(r.ops, r.op, incrementDefCounts(e1, ok)),
      lut |-> r.lut,
      ls |-> IF first THEN callOnOperatorRegistered(ls, e1, r.lut) ELSE ls,
      op |-> r.op,
      ok |-> ok]

registerDef(schema) ==
  /\ LogRoom
  /\ LET r == registerDefResult(operators_, operatorLookupTable_, listeners_, schema)
     IN /\ r.ok => TokenRoom
        /\ operators_' = r.ops
        /\ operatorLookupTable_' = r.lut
        /\ listeners_' = r.ls
        /\ tokens' = IF r.ok THEN tokens (+) SetToBag({DefToken(r.op, schema.name)})
                             ELSE tokens
        /\ last' = Call("registerDef", r.ok, schema.name, schema, nullopt, NoKernel)
  /\ UNCHANGED threadVars
  /\ UNCHANGED <<backendFallbackKernels_, backendsWithoutFallthrough_>>

\* ---------------------------------------------------------------- cleanup
\* slip: the dead entry is erased from operators_, the lookup table keeps its key
cleanup_KeepsLookup(ops, lut, op, op_name) ==
  IF 0 = Deref(ops, op).def_and_impl_count
    THEN IF prepareForDeregistration(Deref(ops, op))
           THEN [ops |-> Erase(ops, op), lut |-> lut, ok |-> TRUE]
           ELSE [ops |-> ops, lut |-> lut, ok |-> FALSE]
    ELSE [ops |-> ops, lut |-> lut, ok |-> TRUE]

cleanup(ops, lut, op, op_name) ==
  IF 0 = Deref(ops, op).def_and_impl_count
    THEN IF prepareForDeregistration(Deref(ops, op))
           THEN [ops |-> Erase(ops, op),
                 lut |-> [lut EXCEPT ![op_name] = NoHandle],
                 ok |-> TRUE]
           ELSE [ops |-> ops, lut |-> lut, ok |-> FALSE]
    ELSE [ops |-> ops, lut |-> lut, ok |-> TRUE]

\* --------------------------------------------------------- deregisterDef_
\* slip: the schema stays attached after the last definition is gone
deregisterSchemaIfLast_Keeps(e) == e

\* slip: the schema goes with any definition
deregisterSchemaIfLast_Always(e) == deregisterSchema(e)

\* the schema goes when the last definition goes
deregisterSchemaIfLast(e) ==
  IF 0 = e.def_count THEN deregisterSchema(e) ELSE e

\* slip: the listeners are called after deregisterSchema and cleanup
deregisterDefResult_NotifiesLate(ops, lut, ls, op, op_name) ==
  LET e == Deref(ops, op)
      e1 == [e EXCEPT !.def_count = @ - 1, !.def_and_impl_count = @ - 1]
      lastDef == 0 = e1.def_count
      e2 == deregisterSchemaIfLast(e1)
      c == cleanup(Update(ops, op, e2), lut, op, op_name)
  IN [ops |-> c.ops, lut |-> c.lut,
      ls |-> IF lastDef THEN callOnOperatorDeregistered(ls, e2, c.lut) ELSE ls,
      ok |-> c.ok]

deregisterDefResult(ops, lut, ls, op, op_name) ==
  LET e == Deref(ops, op)
      asserts == /\ hasSchema(e)
                 /\ e.schema.name = op_name
                 /\ e.def_count > 0
                 /\ e.def_and_impl_count > 0
  IN IF ~asserts
       THEN [ops |-> ops, lut |-> lut, ls |-> ls, ok |-> FALSE]
       ELSE LET e1 == [e EXCEPT !.def_count = @ - 1, !.def_and_impl_count = @ - 1]
                lastDef == 0 = e1.def_count
                e2 == deregisterSchemaIfLast(e1)
                c == cleanup(Update(ops, op, e2), lut, op, op_name)
            IN [ops |-> c.ops, lut |-> c.lut,
                ls |-> IF lastDef THEN callOnOperatorDeregistered(ls, e1, lut) ELSE ls,
                ok |-> c.ok]

deregisterDef_(t) ==
  /\ t.kind = "def"
  /\ BagIn(t, tokens)
  /\ t.op \in Ids(operators_)
  /\ LogRoom
  /\ LET r == deregisterDefResult(operators_, operatorLookupTable_, listeners_, t.op, t.name)
     IN /\ operators_' = r.ops
        /\ operatorLookupTable_' = r.lut
        /\ listeners_' = r.ls
        /\ last' = Call("deregisterDef_", r.ok, t.name, NoSchema, nullopt, NoKernel)
  /\ tokens' = tokens (-) SetToBag({t})
  /\ UNCHANGED threadVars
  /\ UNCHANGED <<backendFallbackKernels_, backendsWithoutFallthrough_>>

\* ----------------------------------------------------------- registerImpl
\* slip: a kernel is counted as a definition too
registerImplResult_CountsDef(ops, lut, op_name, dispatch_key, kernel) ==
  LET r == findOrRegisterName_(ops, lut, op_name)
      e == Deref(r.ops, r.op)
      e1 == registerKernel(e, dispatch_key, kernel)
  IN [ops |-> Update(r.ops, r.op, [e1 EXCEPT !.def_count = @ + 1,
                                             !.def_and_impl_count = @ + 1]),
      lut |-> r.lut,
      op |-> r.op,
      handle |-> FreshKernelHandle(e)]

registerImplResult(ops, lut, op_name, dispatch_key, kernel) ==
  LET r == findOrRegisterName_(ops, lut, op_name)
      e == Deref(r.ops, r.op)
      e1 == registerKernel(e, dispatch_key, kernel)
  IN [ops |-> Update(r.ops, r.op, [e1 EXCEPT !.def_and_impl_count = @ + 1]),
      lut |-> r.lut,
      op |-> r.op,
      handle |-> FreshKernelHandle(e)]

registerImpl(op_name, dispatch_key, kernel) ==
  /\ TokenRoom
  /\ LET r == registerImplResult(operators_, operatorLookupTable_, op_name, dispatch_key, kernel)
     IN /\ operators_' = r.ops
        /\ operatorLookupTable_' = r.lut
        /\ tokens' = tokens (+) SetToBag({ImplToken(r.op, op_name, dispatch_key, r.handle)})
  /\ last' = Call("registerImpl", TRUE, op_name, NoSchema, dispatch_key, kernel)
  /\ UNCHANGED threadVars
  /\ UNCHANGED <<backendFallbackKernels_, backendsWithoutFallthrough_, listeners_>>

\* -------------------------------------------------------- deregisterImpl_
deregisterImplResult(ops, lut, op, op_name, dispatch_key, handle) ==
  LET e == Deref(ops, op)
      e1 == deregisterKernel_(e, dispatch_key, handle)
      ops1 == Update(ops, op, e1)
      asserts == e1.name = op_name /\ e1.def_and_impl_count > 0
  IN IF ~asserts
       THEN [ops |-> ops1, lut |-> lut, ok |-> FALSE]
       ELSE cleanup(Update(ops1, op, [e1 EXCEPT !.def_and_impl_count = @ - 1]),
                    lut, op, op_name)

deregisterImpl_(t) ==
  /\ t.kind = "impl"
  /\ BagIn(t, tokens)
  /\ t.op \in Ids(operators_)
  /\ LET r == deregisterImplResult(operators_, operatorLookupTable_, t.op, t.name, t.key, t.h)
     IN /\ operators_' = r.ops
        /\ operatorLookupTable_' = r.lut
        /\ last' = Call("deregisterImpl_", r.ok, t.name, NoSchema, t.key, NoKernel)
  /\ tokens' = tokens (-) SetToBag({t})
  /\ UNCHANGED threadVars
  /\ UNCHANGED <<backendFallbackKernels_, backendsWithoutFallthrough_, listeners_>>

\* ------------------------------------------------- KernelFunctionTable
\* the table holds at most one kernel per key; an occupied slot is kept
setKernel(table, dispatchKey, kernel) ==
  IF table[dispatchKey] = NoKernel
    THEN [table |-> [table EXCEPT ![dispatchKey] = kernel], result |-> "ADDED_NEW_KERNEL"]
    ELSE [table |-> table, result |-> "KERNEL_ALREADY_EXISTED"]

removeKernelIfExists(table, dispatchKey) ==
  IF table[dispatchKey] # NoKernel
    THEN [table |-> [table EXCEPT ![dispatchKey] = NoKernel], result |-> "REMOVED_KERNEL"]
    ELSE [table |-> table, result |-> "KERNEL_DIDNT_EXIST"]

\* ------------------------------------------------------- registerFallback
\* slip: the result of setKernel is not checked
registerFallbackResult_Unchecked(table, bwf, dispatchKey, kernel) ==
  LET inserted == setKernel(table, dispatchKey, kernel)
  IN [table |-> inserted.table,
      bwf |-> IF isFallthrough(kernel) THEN bwf \ {dispatchKey} ELSE bwf,
      ok |-> TRUE]

\* slip: the fallthrough bookkeeping runs before the result is checked
registerFallbackResult_BookkeepsFirst(table, bwf, dispatchKey, kernel) ==
  LET inserted == setKernel(table, dispatchKey, kernel)
  IN [table |-> inserted.table,
      bwf |-> IF isFallthrough(kernel) THEN bwf \ {dispatchKey} ELSE bwf,
      ok |-> inserted.result = "ADDED_NEW_KERNEL"]

\* isFallthrough is read from the kernel after it was moved into the table;
\* the flag is a plain member, which a move leaves in place
registerFallbackResult(table, bwf, dispatchKey, kernel) ==
  LET inserted == setKernel(table, dispatchKey, kernel)
      ok == inserted.result = "ADDED_NEW_KERNEL"
  IN [table |-> inserted.table,
      bwf |-> IF ok /\ isFallthrough(kernel) THEN bwf \ {dispatchKey} ELSE bwf,
      ok |-> ok]

registerFallback(dispatchKey, kernel) ==
  LET r == registerFallbackResult(backendFallbackKernels_, backendsWithoutFallthrough_,
                                  dispatchKey, kernel)
  IN /\ backendFallbackKernels_' = r.table
     /\ backendsWithoutFallthrough_' = r.bwf
     /\ tokens' = IF r.ok THEN tokens (+) SetToBag({FallbackToken(dispatchKey)})
                          ELSE tokens
     /\ last' = Call("registerFallback", r.ok, "", NoSchema, dispatchKey, kernel)
     /\ UNCHANGED threadVars
     /\ UNCHANGED <<operators_, operatorLookupTable_, listeners_>>

\* ---------------------------------------------------- deregisterFallback_
\* slip: the key is not put back into backendsWithoutFallthrough_
deregisterFallbackResult_KeyNotReadded(table, bwf, dispatchKey) ==
  LET result == removeKernelIfExists(table, dispatchKey)
  IN [table |-> result.table,
      bwf |-> bwf,
      ok |-> result.result = "REMOVED_KERNEL"]

deregisterFallbackResult(table, bwf, dispatchKey) ==
  LET result == removeKernelIfExists(table, dispatchKey)
  IN [table |-> result.table,
      bwf |-> bwf \cup {dispatchKey},
      ok |-> result.result = "REMOVED_KERNEL"]

deregisterFallback_(t) ==
  /\ t.kind = "fallback"
  /\ BagIn(t, tokens)
  /\ LET r == deregisterFallbackResult(backendFallbackKernels_, backendsWithoutFallthrough_,
                                       t.key)
     IN /\ backendFallbackKernels_' = r.table
        /\ backendsWithoutFallthrough_' = r.bwf
        /\ last' = Call("deregisterFallback_", r.ok, "", NoSchema, t.key,
                        backendFallbackKernels_[t.key])
  /\ tokens' = tokens (-) SetToBag({t})
  /\ UNCHANGED threadVars
  /\ UNCHANGED <<operators_, operatorLookupTable_, listeners_>>

\* ------------------------------------------------ addRegistrationListener
RECURSIVE replay_Unfiltered(_, _)
\* slip: the replay does not test def_count
replay_Unfiltered(ops, lut) ==
  IF ops = << >>
    THEN << >>
    ELSE << onOperatorRegistered(Head(ops), lut) >> \o replay_Unfiltered(Tail(ops), lut)

RECURSIVE replay(_, _)
replay(ops, lut) ==
  IF ops = << >>
    THEN << >>
    ELSE (IF Head(ops).def_count > 0
            THEN << onOperatorRegistered(Head(ops), lut) >>
            ELSE << >>) \o replay(Tail(ops), lut)

addRegistrationListener ==
  /\ Len(listeners_) < MaxListeners
  /\ listeners_' = Append(listeners_, replay(operators_, operatorLookupTable_))
  /\ last' = Call("addRegistrationListener", TRUE, "", NoSchema, nullopt, NoKernel)
  /\ UNCHANGED threadVars
  /\ UNCHANGED <<operators_, operatorLookupTable_, backendFallbackKernels_,
                 backendsWithoutFallthrough_, tokens>>

\* --------------------------------------------------------- checkInvariants
checkInvariants ==
  \A k \in 1..(NumKeys - 1) :
    k \notin backendsWithoutFallthrough_ => isFallthrough(backendFallbackKernels_[k])

\* ---------------------------------------------------------- specifications
NextRegistry ==
  \/ \E schema \in Schemas : registerDef(schema)
  \/ \E t \in BagToSet(tokens) : deregisterDef_(t)
  \/ \E op_name \in Names, dispatch_key \in ImplKeys, kernel \in ImplKernels :
        registerImpl(op_name, dispatch_key, kernel)
  \/ \E t \in BagToSet(tokens) : deregisterImpl_(t)
  \/ addRegistrationListener

NextFallback ==
  \/ \E dispatchKey \in DispatchKeys, kernel \in KernelFunctions :
        registerFallback(dispatchKey, kernel)
  \/ \E t \in BagToSet(tokens) : deregisterFallback_(t)

Next == NextRegistry \/ NextFallback

Spec == Init /\ [][Next]_vars

\* the operator table and the fallback table share no state: each is also
\* explored on its own
SpecRegistry == Init /\ [][NextRegistry]_vars

SpecFallback == Init /\ [][NextFallback]_vars

\* ================================================================= lookups
\* DispatchKey's printed names
toString(dispatchKey) ==
  CASE dispatchKey = Undefined -> "Undefined"
    [] dispatchKey = Undefined + 1 -> "CPU"
    [] dispatchKey = Undefined + 2 -> "CUDA"
    [] dispatchKey = Undefined + 3 -> "HIP"
    [] OTHER -> "UNKNOWN_TENSOR_TYPE_ID"

\* DispatchTable::operatorName
operatorName(e) == e.name

\* DispatchTable::listAllDispatchKeys: the keys that have a kernel, and the
\* catch-all kernel if there is one
listAllDispatchKeys(e) ==
  {IF e.kernels[i].key = nullopt THEN "CATCH-ALL" ELSE toString(e.kernels[i].key)
     : i \in 1..Len(e.kernels)}

NoTensorArguments ==
  "There were no tensor arguments to this function, but no fallback function is registered for schema"
CouldNotRun == "Could not run with arguments from the backend; only available for these backends"
CouldNotFindSchema == "Could not find schema for"
ForgotToDef ==
  "Could not find schema for, but we found an implementation; did you forget to def() the operator?"

\* slip: the Undefined key gets the generic message
reportError_AlwaysGeneric(e, dispatchKey) ==
  Error(CouldNotRun, operatorName(e), toString(dispatchKey), listAllDispatchKeys(e))

\* [[noreturn]]: the value is the error raised
reportError(e, dispatchKey) ==
  IF dispatchKey = Undefined
    THEN Error(NoTensorArguments, operatorName(e), "", listAllDispatchKeys(e))
    ELSE LET dispatchKeyStr == toString(dispatchKey)
         IN Error(CouldNotRun, operatorName(e), dispatchKeyStr, listAllDispatchKeys(e))

\* slip: the two messages are exchanged
findSchemaOrThrow_Exchanged(ops, lut, overload_name) ==
  LET it == findSchema(ops, lut, overload_name)
  IN IF it = NoHandle
       THEN IF findOperatorByName(lut, overload_name) = NoHandle
              THEN [handle |-> NoHandle, error |-> Error(ForgotToDef, overload_name, "", {})]
              ELSE [handle |-> NoHandle,
                    error |-> Error(CouldNotFindSchema, overload_name, "", {})]
       ELSE [handle |-> it, error |-> NoError]

findSchemaOrThrow(ops, lut, overload_name) ==
  LET it == findSchema(ops, lut, overload_name)
  IN IF it = NoHandle
       THEN LET it2 == findOperatorByName(lut, overload_name)
            IN IF it2 = NoHandle
                 THEN [handle |-> NoHandle,
                       error |-> Error(CouldNotFindSchema, overload_name, "", {})]
                 ELSE [handle |-> NoHandle, error |-> Error(ForgotToDef, overload_name, "", {})]
       ELSE [handle |-> it, error |-> NoError]

\* a call of an operator for a key it has no kernel for ends in reportError
callReportError(op_name, dispatchKey) ==
  /\ findOperatorByName(operatorLookupTable_, op_name) # NoHandle
  /\ LET e == Deref(operators_, findOperatorByName(operatorLookupTable_, op_name))
     IN /\ \A i \in 1..Len(e.kernels) : e.kernels[i].key \notin {nullopt, dispatchKey}
        /\ dispatchKey # Undefined => backendFallbackKernels_[dispatchKey] = NoKernel
        /\ last' = [Call("reportError", FALSE, op_name, NoSchema, dispatchKey, NoKernel)
                      EXCEPT !.error = reportError(e, dispatchKey)]
  /\ UNCHANGED <<registry, tokens, threadVars>>

callFindSchemaOrThrow(overload_name) ==
  LET r == findSchemaOrThrow(operators_, operatorLookupTable_, overload_name)
  IN /\ last' = [Call("findSchemaOrThrow", r.error = NoError, overload_name, NoSchema,
                      nullopt, NoKernel)
                   EXCEPT !.handle = r.handle, !.error = r.error]
     /\ UNCHANGED <<registry, tokens, threadVars>>

LookupSchemas ==
  {[name |-> n, sig |-> "(Int,Int)->Int", alias_kind |-> "nullopt"] : n \in Names}

NextLookup ==
  \/ \E schema \in LookupSchemas : registerDef(schema)
  \/ \E t \in BagToSet(tokens) : deregisterDef_(t)
  \/ \E op_name \in Names, dispatch_key \in ImplKeys, kernel \in ImplKernels :
       registerImpl(op_name, dispatch_key, kernel)
  \/ \E t \in BagToSet(tokens) : deregisterImpl_(t)
  \/ \E op_name \in Names, dispatchKey \in {Undefined} \cup DispatchKeys :
       callReportError(op_name, dispatchKey)
  \/ \E overload_name \in Names : callFindSchemaOrThrow(overload_name)

SpecLookup == Init /\ [][NextLookup]_vars

\* ================================================================ threads
\* The same handlers run by threads, one step per lock acquisition, per
\* write to operators_, per write to the lookup table and per access to
\* the fallback table.  What the threads call with:
ThreadSchemas ==
  {[name |-> n, sig |-> "(Int,Int)->Int", alias_kind |-> "nullopt"] : n \in {"pkg::add"}}
ThreadKeys == {Undefined + 1}

Go(t, where) == pc' = [pc EXCEPT ![t] = where]

\* std::lock_guard<std::mutex> lock(mutex_): blocks until the mutex is free
lock_guard(t, call, tok) ==
  /\ pc[t].stage = "idle"
  /\ mutex_ = Unlocked
  /\ mutex_' = t
  /\ Go(t, At("locked", call, tok, NoHandle, TRUE))
  /\ UNCHANGED <<registry, last>>

\* the lock_guard's destructor at the end of the handler
unlock(t, call) ==
  /\ mutex_' = Unlocked
  /\ Go(t, Idle)
  /\ last' = call

T_registerDef(t, schema) ==
  /\ LogRoom /\ TokenRoom
  /\ lock_guard(t, Call("registerDef", TRUE, schema.name, schema, nullopt, NoKernel),
                Idle.tok)
  /\ UNCHANGED tokens

T_registerImpl(t, op_name, dispatch_key, kernel) ==
  /\ TokenRoom
  /\ lock_guard(t, Call("registerImpl", TRUE, op_name, NoSchema, dispatch_key, kernel),
                Idle.tok)
  /\ UNCHANGED tokens

\* findOrRegisterName_ up to operators_.emplace_back
T_emplace(t) ==
  LET c == pc[t].call
      r == findOrRegisterName_(operators_, operatorLookupTable_, c.name)
  IN /\ pc[t].stage = "locked"
     /\ c.op \in {"registerDef", "registerImpl"}
     /\ operators_' = r.ops
     /\ Go(t, At(IF r.lut = operatorLookupTable_ THEN "found" ELSE "emplaced",
                 c, pc[t].tok, r.op, TRUE))
     /\ UNCHANGED <<operatorLookupTable_, backendFallbackKernels_,
                    backendsWithoutFallthrough_, listeners_, tokens, last, mutex_>>

\* findOrRegisterName_: operatorLookupTable_.write(emplace(op_name, handle))
T_publish(t) ==
  /\ pc[t].stage = "emplaced"
  /\ operatorLookupTable_' = [operatorLookupTable_ EXCEPT ![pc[t].call.name] = pc[t].h]
  /\ Go(t, [pc[t] EXCEPT !.stage = "found"])
  /\ UNCHANGED <<operators_, backendFallbackKernels_, backendsWithoutFallthrough_,
                 listeners_, tokens, last, mutex_>>

\* the rest of registerDef, on the entry findOrRegisterName_ returned
T_registerDef_body(t) ==
  LET c == pc[t].call
      r == registerDefResult(operators_, operatorLookupTable_, listeners_, c.schema)
  IN /\ pc[t].stage = "found"
     /\ c.op = "registerDef"
     /\ operators_' = r.ops
     /\ listeners_' = r.ls
     /\ tokens' = IF r.ok THEN tokens (+) SetToBag({DefToken(r.op, c.name)}) ELSE tokens
     /\ unlock(t, [c EXCEPT !.ok = r.ok])
     /\ UNCHANGED <<operatorLookupTable_, backendFallbackKernels_,
                    backendsWithoutFallthrough_>>

T_registerImpl_body(t) ==
  LET c == pc[t].call
      r == registerImplResult(operators_, operatorLookupTable_, c.name, c.key, c.kernel)
  IN /\ pc[t].stage = "found"
     /\ c.op = "registerImpl"
     /\ operators_' = r.ops
     /\ tokens' = tokens (+) SetToBag({ImplToken(r.op, c.name, c.key, r.handle)})
     /\ unlock(t, c)
     /\ UNCHANGED <<operatorLookupTable_, backendFallbackKernels_,
                    backendsWithoutFallthrough_, listeners_>>

T_deregisterDef_(t, tok) ==
  /\ tok.kind = "def"
  /\ BagIn(tok, tokens)
  /\ LogRoom
  /\ tokens' = tokens (-) SetToBag({tok})
  /\ lock_guard(t, Call("deregisterDef_", TRUE, tok.name, NoSchema, nullopt, NoKernel), tok)

T_deregisterImpl_(t, tok) ==
  /\ tok.kind = "impl"
  /\ BagIn(tok, tokens)
  /\ tokens' = tokens (-) SetToBag({tok})
  /\ lock_guard(t, Call("deregisterImpl_", TRUE, tok.name, NoSchema, tok.key, NoKernel), tok)

\* a release up to and including cleanup's operators_.erase
T_release_body(t) ==
  LET c == pc[t].call
      tok == pc[t].tok
      r == IF c.op = "deregisterDef_"
             THEN deregisterDefResult(operators_, operatorLookupTable_, listeners_,
                                      tok.op, tok.name)
             ELSE [ls |-> listeners_] @@
                  deregisterImplResult(operators_, operatorLookupTable_,
                                       tok.op, tok.name, tok.key, tok.h)
      done == [c EXCEPT !.ok = r.ok]
  IN /\ pc[t].stage = "locked"
     /\ c.op \in {"deregisterDef_", "deregisterImpl_"}
     /\ tok.op \in Ids(operators_)
     /\ operators_' = r.ops
     /\ listeners_' = r.ls
     /\ IF r.lut = operatorLookupTable_
          THEN unlock(t, done)
          ELSE /\ Go(t, At("erased", done, tok, tok.op, TRUE))
               /\ UNCHANGED <<mutex_, last>>
     /\ UNCHANGED <<operatorLookupTable_, backendFallbackKernels_,
                    backendsWithoutFallthrough_, tokens>>

\* cleanup: operatorLookupTable_.write(erase(op_name))
T_eraseLookup(t) ==
  /\ pc[t].stage = "erased"
  /\ operatorLookupTable_' = [operatorLookupTable_ EXCEPT ![pc[t].call.name] = NoHandle]
  /\ unlock(t, pc[t].call)
  /\ UNCHANGED <<operators_, backendFallbackKernels_, backendsWithoutFallthrough_,
                 listeners_, tokens>>

T_addRegistrationListener(t) ==
  /\ Len(listeners_) < MaxListeners
  /\ lock_guard(t, Call("addRegistrationListener", TRUE, "", NoSchema, nullopt, NoKernel),
                Idle.tok)
  /\ UNCHANGED tokens

T_addRegistrationListener_body(t) ==
  /\ pc[t].stage = "locked"
  /\ pc[t].call.op = "addRegistrationListener"
  /\ listeners_' = Append(listeners_, replay(operators_, operatorLookupTable_))
  /\ unlock(t, pc[t].call)
  /\ UNCHANGED <<operators_, operatorLookupTable_, backendFallbackKernels_,
                 backendsWithoutFallthrough_, tokens>>

\* registerFallback takes no lock: backendFallbackKernels_.setKernel
T_registerFallback_setKernel(t, dispatchKey, kernel) ==
  LET inserted == setKernel(backendFallbackKernels_, dispatchKey, kernel)
  IN /\ pc[t].stage = "idle"
     /\ backendFallbackKernels_' = inserted.table
     /\ Go(t, At("inserted",
                 Call("registerFallback", inserted.result = "ADDED_NEW_KERNEL", "",
                      NoSchema, dispatchKey, kernel),
                 Idle.tok, NoHandle, TRUE))
     /\ UNCHANGED <<operators_, operatorLookupTable_, backendsWithoutFallthrough_,
                    listeners_, tokens, last, mutex_>>

\* registerFallback from its TORCH_CHECK to its return
T_registerFallback_finish(t) ==
  LET c == pc[t].call
  IN /\ pc[t].stage = "inserted"
     /\ backendsWithoutFallthrough_' =
          IF c.ok /\ isFallthrough(c.kernel)
            THEN backendsWithoutFallthrough_ \ {c.key}
            ELSE backendsWithoutFallthrough_
     /\ tokens' = IF c.ok THEN tokens (+) SetToBag({FallbackToken(c.key)}) ELSE tokens
     /\ Go(t, Idle)
     /\ last' = c
     /\ UNCHANGED <<operators_, operatorLookupTable_, backendFallbackKernels_,
                    listeners_, mutex_>>

\* deregisterFallback_ takes no lock: backendFallbackKernels_.removeKernelIfExists
T_deregisterFallback_remove(t, tok) ==
  LET r == removeKernelIfExists(backendFallbackKernels_, tok.key)
  IN /\ pc[t].stage = "idle"
     /\ tok.kind = "fallback"
     /\ BagIn(tok, tokens)
     /\ tokens' = tokens (-) SetToBag({tok})
     /\ backendFallbackKernels_' = r.table
     /\ Go(t, At("removed",
                 Call("deregisterFallback_", r.result = "REMOVED_KERNEL", "", NoSchema,
                      tok.key, backendFallbackKernels_[tok.key]),
                 tok, NoHandle, TRUE))
     /\ UNCHANGED <<operators_, operatorLookupTable_, backendsWithoutFallthrough_,
                    listeners_, last, mutex_>>

\* deregisterFallback_ from backendsWithoutFallthrough_.add to its return
T_deregisterFallback_finish(t) ==
  /\ pc[t].stage = "removed"
  /\ backendsWithoutFallthrough_' = backendsWithoutFallthrough_ \cup {pc[t].call.key}
  /\ Go(t, Idle)
  /\ last' = pc[t].call
  /\ UNCHANGED <<operators_, operatorLookupTable_, backendFallbackKernels_,
                 listeners_, tokens, mutex_>>

\* findOperatorByName on a thread that holds no lock: flag records whether the
\* handle it returns refers to an entry of operators_ at that moment
T_findOperatorByName(t, overload_name) ==
  LET found == findOperatorByName(operatorLookupTable_, overload_name)
  IN /\ pc[t].stage = "idle"
     /\ Go(t, At("returned",
                 Call("findOperatorByName", TRUE, overload_name, NoSchema, nullopt, NoKernel),
                 Idle.tok, found,
                 found = NoHandle \/ found \in Ids(operators_)))
     /\ UNCHANGED <<registry, tokens, last, mutex_>>

\* the caller drops the handle
T_dropHandle(t) ==
  /\ pc[t].stage = "returned"
  /\ Go(t, Idle)
  /\ UNCHANGED <<registry, tokens, last, mutex_>>

NextThreads ==
  \E t \in Threads :
    \/ \E schema \in ThreadSchemas : T_registerDef(t, schema)
    \/ \E op_name \in {"pkg::add"}, dispatch_key \in ImplKeys, kernel \in ImplKernels :
         T_registerImpl(t, op_name, dispatch_key, kernel)
    \/ T_emplace(t)
    \/ T_publish(t)
    \/ T_registerDef_body(t)
    \/ T_registerImpl_body(t)
    \/ \E tok \in BagToSet(tokens) : T_deregisterDef_(t, tok)
    \/ \E tok \in BagToSet(tokens) : T_deregisterImpl_(t, tok)
    \/ T_release_body(t)
    \/ T_eraseLookup(t)
    \/ T_addRegistrationListener(t)
    \/ T_addRegistrationListener_body(t)
    \/ \E dispatchKey \in ThreadKeys, kernel \in KernelFunctions :
         T_registerFallback_setKernel(t, dispatchKey, kernel)
    \/ T_registerFallback_finish(t)
    \/ \E tok \in BagToSet(tokens) : T_deregisterFallback_remove(t, tok)
    \/ T_deregisterFallback_finish(t)
    \/ \E overload_name \in {"pkg::add"} : T_findOperatorByName(t, overload_name)
    \/ T_dropHandle(t)

SpecThreads == Init /\ [][NextThreads]_vars

\* ================================================================ claims
Found(n) == findOperatorByName(operatorLookupTable_, n) # NoHandle

EntryOf(n) == Deref(operators_, findOperatorByName(operatorLookupTable_, n))

\* the operator n has a live definition
Defined(n) == Found(n) /\ EntryOf(n).def_count > 0

\* C1: a registerDef for a name without a definition succeeds and attaches
\* its schema; a registerDef whose schema is identical to the one attached
\* succeeds and hands out one more definition token; after a definition
\* token is released the operator is found with its schema while another
\* definition token is live, and is absent once no token for the name is left.
C1_SameSchemaTwice ==
  [][\A n \in Names :
       /\ (last'.op = "registerDef" /\ last'.name = n /\ ~Defined(n))
          => /\ last'.ok
             /\ TokenCount("def", n)' = 1
             /\ EntryOf(n)'.schema = last'.schema
       /\ (/\ last'.op = "registerDef" /\ last'.name = n
           /\ Defined(n)
           /\ EntryOf(n).schema = last'.schema)
          => /\ last'.ok
             /\ TokenCount("def", n)' = TokenCount("def", n) + 1
             /\ EntryOf(n)'.def_count = EntryOf(n).def_count + 1
       /\ (last'.op = "deregisterDef_" /\ last'.name = n /\ TokenCount("def", n)' > 0)
          => /\ findOperatorByName(operatorLookupTable_, n)' # NoHandle
             /\ findSchema(operators_, operatorLookupTable_, n)' # NoHandle
       /\ (/\ last'.op = "deregisterDef_" /\ last'.name = n
           /\ TokenCount("def", n)' = 0
           /\ TokenCount("impl", n)' = 0)
          => findOperatorByName(operatorLookupTable_, n)' = NoHandle
    ]_vars

\* an identical schema with an explicit kind was registered a second time
C1_Witness ==
  /\ last.op = "registerDef" /\ last.ok
  /\ Defined(last.name)
  /\ EntryOf(last.name).def_count = 2
  /\ EntryOf(last.name).schema = last.schema
  /\ ~isDefaultAliasAnalysisKind(last.schema)

\* the cases of a registerDef the claim C2 names as rejected
C2_Conflict(existing, schema) ==
  \/ ~SchemaEq(existing, schema)
  \/ /\ ~isDefaultAliasAnalysisKind(existing)
     /\ ~isDefaultAliasAnalysisKind(schema)
     /\ existing.alias_kind # schema.alias_kind

\* C2: a registerDef that conflicts with the live definition fails, and a
\* failed registerDef leaves entries, lookup table, listeners' events and the
\* tokens exactly as they were.
C2_RejectedDefChangesNothing ==
  [][/\ \A n \in Names :
          (/\ last'.op = "registerDef" /\ last'.name = n
           /\ Defined(n)
           /\ C2_Conflict(EntryOf(n).schema, last'.schema))
          => ~last'.ok
     /\ (last'.op = "registerDef" /\ ~last'.ok)
        => UNCHANGED <<registry, tokens>>
    ]_vars

\* a definition was rejected for an operator that also has a kernel, with a
\* listener present
C2_Witness ==
  /\ last.op = "registerDef" /\ ~last.ok
  /\ Defined(last.name)
  /\ EntryOf(last.name).kernels # << >>
  /\ Len(listeners_) > 0

\* a registerDef of a structurally equal schema with an explicit kind meets a
\* live definition without one
C3_PostFacto(n) ==
  /\ last'.op = "registerDef" /\ last'.name = n
  /\ Defined(n)
  /\ SchemaEq(EntryOf(n).schema, last'.schema)
  /\ isDefaultAliasAnalysisKind(EntryOf(n).schema)
  /\ ~isDefaultAliasAnalysisKind(last'.schema)

\* C3 as stated: every explicit kind given after a definition without one is
\* accepted, the counters are incremented and the operator's schema reports
\* that kind afterwards.
C3_AnyKindAdopted ==
  [][\A n \in Names :
       C3_PostFacto(n)
       => /\ last'.ok
          /\ EntryOf(n)'.def_count = EntryOf(n).def_count + 1
          /\ EntryOf(n)'.def_and_impl_count = EntryOf(n).def_and_impl_count + 1
          /\ aliasAnalysis(EntryOf(n)'.schema) = last'.schema.alias_kind
    ]_vars

\* C3 amended: an explicit kind given after a definition without one is
\* accepted exactly when it is the kind the existing schema reports through
\* aliasAnalysis(); then both counters are incremented and the attached schema
\* is kept as it is, otherwise the call fails and nothing changes.
C3_KindAcceptedIfReported ==
  [][\A n \in Names :
       C3_PostFacto(n)
       => /\ last'.ok <=> (last'.schema.alias_kind = aliasAnalysis(EntryOf(n).schema))
          /\ last'.ok
             => /\ EntryOf(n)'.def_count = EntryOf(n).def_count + 1
                /\ EntryOf(n)'.def_and_impl_count = EntryOf(n).def_and_impl_count + 1
                /\ EntryOf(n)'.schema = EntryOf(n).schema
                /\ aliasAnalysis(EntryOf(n)'.schema) = last'.schema.alias_kind
          /\ ~last'.ok => UNCHANGED <<registry, tokens>>
    ]_vars

\* an explicit kind was accepted after a definition without one
C3_Witness ==
  /\ last.op = "registerDef" /\ last.ok
  /\ ~isDefaultAliasAnalysisKind(last.schema)
  /\ Defined(last.name)
  /\ EntryOf(last.name).def_count = 2
  /\ isDefaultAliasAnalysisKind(EntryOf(last.name).schema)

\* C4: a registerDef of a structurally equal schema without an explicit kind
\* succeeds whatever kind the live definition has, and the attached schema
\* with its kind is kept.
C4_DefaultKindAccepted ==
  [][\A n \in Names :
       (/\ last'.op = "registerDef" /\ last'.name = n
        /\ Defined(n)
        /\ SchemaEq(EntryOf(n).schema, last'.schema)
        /\ isDefaultAliasAnalysisKind(last'.schema))
       => /\ last'.ok
          /\ EntryOf(n)'.schema = EntryOf(n).schema
          /\ EntryOf(n)'.def_count = EntryOf(n).def_count + 1
          /\ EntryOf(n)'.def_and_impl_count = EntryOf(n).def_and_impl_count + 1
          /\ TokenCount("def", n)' = TokenCount("def", n) + 1
    ]_vars

\* a schema without a kind was accepted on top of one with the kind FROM_SCHEMA
C4_Witness ==
  /\ last.op = "registerDef" /\ last.ok
  /\ isDefaultAliasAnalysisKind(last.schema)
  /\ Defined(last.name)
  /\ EntryOf(last.name).def_count = 2
  /\ EntryOf(last.name).schema.alias_kind = "FROM_SCHEMA"

\* the live kernel token t has its kernel in the entry of its operator
KernelRegistered(t) ==
  /\ Found(t.name)
  /\ EntryOf(t.name).id = t.op
  /\ \E i \in 1..Len(EntryOf(t.name).kernels) :
       /\ EntryOf(t.name).kernels[i].h = t.h
       /\ EntryOf(t.name).kernels[i].key = t.key

\* C5: an operator with a live kernel token and no live definition token is
\* found by findOperatorByName, findSchema returns nothing for it, and the
\* kernel of every live kernel token is in its entry.
C5_ImplWithoutDef ==
  \A n \in Names :
    (TokenCount("impl", n) > 0 /\ TokenCount("def", n) = 0)
    => /\ findOperatorByName(operatorLookupTable_, n) # NoHandle
       /\ findSchema(operators_, operatorLookupTable_, n) = NoHandle
       /\ \A t \in BagToSet(tokens) :
            (t.kind = "impl" /\ t.name = n) => KernelRegistered(t)

\* the last definition token was released while a kernel token is live
C5_Witness ==
  /\ last.op = "deregisterDef_" /\ last.ok
  /\ TokenCount("impl", last.name) > 0
  /\ TokenCount("def", last.name) = 0

\* C6: findOperatorByName finds a name exactly while a definition or kernel
\* token for it is unreleased, and operators_ holds an entry for exactly
\* those names.
C6_FoundIffTokenLive ==
  \A n \in Names :
    LET live == TokenCount("def", n) + TokenCount("impl", n) > 0
    IN /\ findOperatorByName(operatorLookupTable_, n) # NoHandle <=> live
       /\ (\E i \in 1..Len(operators_) : operators_[i].name = n) <=> live

\* the release of the last token of an operator erased its entry while
\* another operator stays registered
C6_Witness ==
  /\ last.op \in {"deregisterDef_", "deregisterImpl_"} /\ last.ok
  /\ ~Found(last.name)
  /\ \E n \in Names : Found(n)

\* C7: a registerFallback for a key fails while a fallback token for that key
\* is unreleased, and succeeds when there is none (none yet, or released).
C7_OneFallbackPerKey ==
  [][\A k \in DispatchKeys :
       (last'.op = "registerFallback" /\ last'.key = k)
       => /\ last'.ok <=> ~BagIn(FallbackToken(k), tokens)
          /\ last'.ok => /\ BagIn(FallbackToken(k), tokens')
                         /\ backendFallbackKernels_'[k] = last'.kernel
    ]_vars

\* a second fallback for a key was rejected while the first token is live
C7_Witness ==
  /\ last.op = "registerFallback" /\ ~last.ok
  /\ BagIn(FallbackToken(last.key), tokens)

NewRegistered(log, from, n) ==
  Cardinality({i \in (from + 1)..Len(log) : log[i].ev = "registered" /\ log[i].name = n})

DefCountOf(ops, n) ==
  IF \E i \in 1..Len(ops) : ops[i].name = n
    THEN ops[CHOOSE i \in 1..Len(ops) : ops[i].name = n].def_count
    ELSE 0

\* C10: a listener being added receives one "registered" event for each
\* operator with def_count > 0 and none for any other; a listener already
\* added receives one "registered" event when an operator's def_count goes
\* from 0 to 1 and none in any other step.
C10_ListenerSeesEachDefinitionOnce ==
  [][\A i \in 1..Len(listeners_'), n \in Names :
       IF i > Len(listeners_)
         THEN NewRegistered(listeners_'[i], 0, n)
              = (IF DefCountOf(operators_, n) > 0 THEN 1 ELSE 0)
         ELSE NewRegistered(listeners_'[i], Len(listeners_[i]), n)
              = (IF DefCountOf(operators_, n) = 0 /\ DefCountOf(operators_', n) = 1
                   THEN 1 ELSE 0)
    ]_vars

\* a listener was added while one operator is defined and another has only a
\* kernel: it holds the one event of the defined operator
C10_Witness ==
  /\ last.op = "addRegistrationListener"
  /\ Len(listeners_) > 0
  /\ Len(listeners_[Len(listeners_)]) = 1
  /\ \E n \in Names : Found(n) /\ EntryOf(n).def_count = 0

\* ------------------------------------------------------------ concurrency
\* the steps of a handler that changes the registry
MutatingStages == {"locked", "found", "emplaced", "erased", "inserted", "removed"}

\* C11: every thread that is inside a mutating operation (registerDef,
\* registerImpl, registerFallback, the release of a definition, kernel or
\* fallback token, addRegistrationListener) holds mutex_, so no two threads
\* are inside mutating operations at once.
C11_MutatorsHoldWriterLock ==
  \A t \in Threads : pc[t].stage \in MutatingStages => mutex_ = t

\* C12: a findOperatorByName that runs next to a registration or a release
\* returns either nothing or a handle whose entry is in operators_ at the
\* moment it returns.
C12_ReaderNeverSeesErasedEntry ==
  \A t \in Threads : pc[t].stage = "returned" => pc[t].flag

\* ----------------------------------------------------------------- errors
\* C13: reportError never returns; for the Undefined key it raises the "no
\* tensor arguments" error and for every other key the generic error; both
\* name the operator and list the keys the operator has kernels for, and
\* the generic one names the requested key.
C13_ReportErrorDistinguishesUndefined ==
  last.op = "reportError" =>
    LET e == EntryOf(last.name)
    IN /\ ~last.ok
       /\ last.error # NoError
       /\ last.key = Undefined <=> last.error.text = NoTensorArguments
       /\ last.key # Undefined <=> last.error.text = CouldNotRun
       /\ last.error.operatorName = last.name
       /\ \A k \in DispatchKeys :
            toString(k) \in last.error.listAllDispatchKeys
              <=> \E i \in 1..Len(e.kernels) : e.kernels[i].key = k
       /\ last.key # Undefined => last.error.dispatchKeyStr = toString(last.key)

\* a defined operator with a kernel for CPU only was called for CUDA
C13_Witness ==
  /\ last.op = "reportError"
  /\ last.key = Undefined + 2
  /\ last.error.listAllDispatchKeys = {toString(Undefined + 1)}
  /\ Defined(last.name)

\* C14: findSchemaOrThrow returns the handle of the operator exactly when
\* the operator exists and has a schema; it raises the "forgot to def()"
\* error exactly when the operator exists without a schema (a live kernel
\* token, no live definition token) and the plain error exactly when there
\* is no entry for the name.
C14_FindSchemaOrThrowOutcomes ==
  last.op = "findSchemaOrThrow" =>
    LET n == last.name
        exists == \E i \in 1..Len(operators_) : operators_[i].name = n
    IN /\ last.ok <=> exists /\ hasSchema(EntryOf(n))
       /\ last.ok => last.handle = EntryOf(n).id /\ last.error = NoError
       /\ ~last.ok => last.handle = NoHandle
       /\ last.error.text = ForgotToDef
            <=> exists /\ TokenCount("impl", n) > 0 /\ TokenCount("def", n) = 0
       /\ last.error.text = CouldNotFindSchema <=> ~exists
       /\ ~last.ok => last.error.operatorName = n

\* an operator with a kernel and no definition was looked up for its schema
C14_Witness ==
  /\ last.op = "findSchemaOrThrow"
  /\ last.error.text = ForgotToDef
  /\ \E n \in Names : n # last.name /\ Defined(n)

\* ------------------------------------------------------------- C15 .. C20
\* C15: the release of the last definition token of n gives every listener
\* one onOperatorDeregistered, and at that callback n is found by
\* findOperatorByName and has its schema; the release of any other
\* definition token notifies no listener and leaves the schema attached.
C15_DeregisteredBeforeSchemaRemoved ==
  [][\A n \in Names :
       last'.op = "deregisterDef_" /\ last'.name = n =>
         IF DefCountOf(operators_, n) = 1
           THEN /\ \A i \in 1..Len(listeners_) :
                     listeners_'[i] =
                       Append(listeners_[i],
                              [ev |-> "deregistered", name |-> n,
                               found |-> TRUE, hasSchema |-> TRUE])
                /\ DefCountOf(operators_', n) = 0
           ELSE /\ listeners_' = listeners_
                /\ hasSchema(EntryOf(n)')
                /\ EntryOf(n)'.schema = EntryOf(n).schema
    ]_vars

\* a listener was told of the deregistration of an operator whose entry is
\* erased by the same release, and saw the operator with its schema
C15_Witness ==
  /\ last.op = "deregisterDef_" /\ last.ok
  /\ ~Found(last.name)
  /\ \E i \in 1..Len(listeners_) :
       /\ Len(listeners_[i]) > 0
       /\ LET ev == listeners_[i][Len(listeners_[i])]
          IN ev.ev = "deregistered" /\ ev.name = last.name /\ ev.found /\ ev.hasSchema

\* C16: for every operator entry def_count is the number of live definition
\* tokens of its name and def_and_impl_count the number of its live
\* definition and kernel tokens; so def_and_impl_count >= def_count >= 0,
\* and a name without an entry has no live token.
C16_CountersCountTokens ==
  /\ \A i \in 1..Len(operators_) :
       LET e == operators_[i]
       IN /\ e.def_count = TokenCount("def", e.name)
          /\ e.def_and_impl_count = TokenCount("def", e.name) + TokenCount("impl", e.name)
          /\ e.def_and_impl_count >= e.def_count
          /\ e.def_count >= 0
  /\ \A n \in Names :
       ~Found(n) => TokenCount("def", n) = 0 /\ TokenCount("impl", n) = 0

\* a registerDef was rejected for an operator that has one definition and
\* one kernel
C16_Witness ==
  /\ last.op = "registerDef" /\ ~last.ok
  /\ EntryOf(last.name).def_count = 1
  /\ EntryOf(last.name).def_and_impl_count = 2

\* the entries of operators_ that carry a name (none or one)
EntriesNamed(ops, n) == {ops[i] : i \in {j \in 1..Len(ops) : ops[j].name = n}}

\* C17: a registerImpl and the release of a kernel token leave def_count,
\* the schema, the listeners, every other operator's entry and the fallback
\* table as they were; registerImpl adds one kernel to its operator's entry
\* and one to def_and_impl_count (creating the entry if there was none); the
\* release removes the one kernel its registration added, keeps every other
\* kernel of the operator, takes one from def_and_impl_count, and the entry
\* is erased when that reaches zero.
C17_ImplTouchesOnlyItsKernel ==
  [][\A n \in Names :
       last'.op \in {"registerImpl", "deregisterImpl_"} /\ last'.name = n =>
         /\ listeners_' = listeners_
         /\ backendFallbackKernels_' = backendFallbackKernels_
         /\ backendsWithoutFallthrough_' = backendsWithoutFallthrough_
         /\ \A m \in Names \ {n} : EntriesNamed(operators_', m) = EntriesNamed(operators_, m)
         /\ LET old == IF Found(n) THEN EntryOf(n) ELSE NewEntry(EntryOf(n)'.id, n)
            IN IF last'.op = "registerImpl"
                 THEN /\ Found(n)'
                      /\ EntryOf(n)'.id = old.id
                      /\ EntryOf(n)'.def_count = old.def_count
                      /\ EntryOf(n)'.schema = old.schema
                      /\ EntryOf(n)'.def_and_impl_count = old.def_and_impl_count + 1
                      /\ Tail(EntryOf(n)'.kernels) = old.kernels
                      /\ Head(EntryOf(n)'.kernels).key = last'.key
                      /\ Head(EntryOf(n)'.kernels).kernel = last'.kernel
                 ELSE \E t \in BagToSet(tokens) :
                        /\ t.kind = "impl" /\ t.name = n
                        /\ tokens' = tokens (-) SetToBag({t})
                        /\ \E i \in 1..Len(old.kernels) :
                             /\ old.kernels[i].h = t.h /\ old.kernels[i].key = t.key
                             /\ LET rest == [j \in 1..(Len(old.kernels) - 1) |->
                                               IF j < i THEN old.kernels[j]
                                                        ELSE old.kernels[j + 1]]
                                IN IF old.def_and_impl_count = 1
                                     THEN ~Found(n)' /\ EntriesNamed(operators_', n) = {}
                                     ELSE EntryOf(n)' =
                                            [old EXCEPT !.kernels = rest,
                                                        !.def_and_impl_count = @ - 1]
    ]_vars

\* one of two kernels registered for the same key of an operator was
\* released; the other is still registered
C17_Witness ==
  /\ last.op = "deregisterImpl_" /\ last.ok
  /\ Found(last.name)
  /\ \E i \in 1..Len(EntryOf(last.name).kernels) :
       EntryOf(last.name).kernels[i].key = last.key

\* the lookup table and operators_ hold the same operators, and every live
\* definition or kernel token refers to the entry of its name
IndexAgrees(ops, lut, toks) ==
  /\ \A n \in Names :
       /\ findOperatorByName(lut, n) # NoHandle <=> EntriesNamed(ops, n) # {}
       /\ findOperatorByName(lut, n) # NoHandle =>
            /\ findOperatorByName(lut, n) \in Ids(ops)
            /\ Deref(ops, findOperatorByName(lut, n)).name = n
  /\ \A i, j \in 1..Len(ops) :
       (ops[i].name = ops[j].name \/ ops[i].id = ops[j].id) => i = j
  /\ \A i \in 1..Len(ops) : ops[i].name \in Names
  /\ \A t \in BagToSet(toks) :
       t.kind # "fallback" => t.op \in Ids(ops) /\ Deref(ops, t.op).name = t.name

\* C18: after every operation the keys of the lookup table are the names of
\* the entries of operators_, each key maps to the entry of that name, and
\* no two entries share a name; a name that had no entry gets a new entry
\* that counts only the registration that created it, and no live token
\* refers to an entry other than the one now carrying its name.
C18_IndexAndCollectionAgree ==
  [][/\ IndexAgrees(operators_', operatorLookupTable_', tokens')
     /\ \A n \in Names :
          ~Found(n) /\ Found(n)' =>
            /\ last'.op \in {"registerDef", "registerImpl"} /\ last'.name = n
            /\ EntryOf(n)'.def_and_impl_count = 1
            /\ EntryOf(n)'.def_count = (IF last'.op = "registerDef" THEN 1 ELSE 0)
            /\ Len(EntryOf(n)'.kernels) = (IF last'.op = "registerImpl" THEN 1 ELSE 0)
            /\ TokenCount("def", n)' + TokenCount("impl", n)' = 1
    ]_vars

\* an operator whose definition a listener saw come and go got a new entry
\* through a registerImpl
C18_Witness ==
  /\ last.op = "registerImpl"
  /\ Found(last.name)
  /\ EntryOf(last.name).def_and_impl_count = 1
  /\ \E i \in 1..Len(listeners_) :
       /\ Len(listeners_[i]) = 2
       /\ listeners_[i][1].ev = "registered" /\ listeners_[i][1].name = last.name
       /\ listeners_[i][2].ev = "deregistered" /\ listeners_[i][2].name = last.name

\* the events of a log that are about the operator n
EventsOf(log, n) == SelectSeq(log, LAMBDA ev : ev.name = n)

\* C19: for every listener and every name, the events for that name are
\* registered, deregistered, registered, ... in turn, and there is one more
\* registered than deregistered exactly when the name has def_count > 0.
C19_EventsAlternate ==
  \A i \in 1..Len(listeners_), n \in Names :
    LET events == EventsOf(listeners_[i], n)
    IN /\ \A j \in 1..Len(events) :
            events[j].ev = (IF j % 2 = 1 THEN "registered" ELSE "deregistered")
       /\ Len(events) % 2 = 1 <=> DefCountOf(operators_, n) > 0

\* a second definition of an operator was accepted and the listener holds
\* the one event of the first
C19_Witness ==
  /\ last.op = "registerDef" /\ last.ok
  /\ EntryOf(last.name).def_count = 2
  /\ Len(listeners_) > 0
  /\ Len(EventsOf(listeners_[1], last.name)) = 1

\* C20: an entry has a schema exactly when its def_count > 0, and
\* findSchema(n) returns a handle exactly when a definition token of n is
\* live; the schema attached is the one of the registerDef that found
\* def_count = 0.
C20_SchemaIffDefined ==
  [][/\ \A i \in 1..Len(operators_') :
          hasSchema(operators_'[i]) <=> operators_'[i].def_count > 0
     /\ \A n \in Names :
          /\ findSchema(operators_', operatorLookupTable_', n) # NoHandle
               <=> TokenCount("def", n)' > 0
          /\ (last'.op = "registerDef" /\ last'.name = n /\ DefCountOf(operators_, n) = 0)
               => EntryOf(n)'.schema = last'.schema
    ]_vars

\* an operator that had only a kernel got its definition
C20_Witness ==
  /\ last.op = "registerDef" /\ last.ok
  /\ EntryOf(last.name).def_count = 1
  /\ EntryOf(last.name).def_and_impl_count = 2
  /\ findSchema(operators_, operatorLookupTable_, last.name) # NoHandle

====
